---- MODULE Spec2Model ----
(***************************************************************************)
(* Continuum / Supply Chain Risk Sentinel: the analysis pipeline           *)
(* (graph construction, risk scoring, what-if simulation, decisions) run   *)
(* by Orchestrator.run_single_cycle over the process-wide AgentMemory.     *)
(*                                                                         *)
(* Units.  Scores and confidences are integers in hundredths (0.75 = 75),  *)
(* delays and service impacts in tenths (6.0 days = 60, 66.7 % = 667).     *)
(* Text is a set of lower-case word tokens.  Timestamps are left out.      *)
(***************************************************************************)
EXTENDS Integers, Sequences, FiniteSets, TLC

VARIABLES
    G,              \* GraphAgent.G: the one DiGraph object, also memory["supply_chain_graph"]
    graph_in_memory,\* whether memory holds the key "supply_chain_graph"
    memory,         \* AgentMemory._store, the five result keys
    pc,             \* position of run_single_cycle
    ingest_result,  \* local of run_single_cycle
    result,         \* what run_single_cycle returned to its caller
    written,        \* history: result keys stored by memory.set during the current cycle
    prev_written,   \* history: result keys stored during the previous cycle
    repeat,         \* history: the current cycle runs on the inputs of the previous one
    call,           \* a direct call of one agent method: its name and arguments
    ret,            \* what that call returned or raised
    RUNNING,        \* main.py: the global flag the signal handler clears
    at,             \* position of main() in its monitoring loop ("off": main is not running)
    cycle_count     \* local of main(): iterations of the loop begun

vars == <<G, graph_in_memory, memory, pc, ingest_result, result, written, prev_written, repeat, call, ret,
          RUNNING, at, cycle_count>>

LoopVars == <<RUNNING, at, cycle_count>>

(***************************************************************************)
(* Bounds of the model.                                                    *)
(***************************************************************************)
MaxRoster == 2
MaxNews == 2
MaxCallRoster == 2
MaxAnalysisRoster == 3
MaxAnalysisNews == 3
MaxCycles == 3

(***************************************************************************)
(* Small helpers.                                                          *)
(***************************************************************************)
Range(s) == {s[i] : i \in 1..Len(s)}

Min(a, b) == IF a <= b THEN a ELSE b

Max(a, b) == IF a >= b THEN a ELSE b

\* Body applied to the value of an expression, which is worked out once.
Bind(value, Body(_)) == CHOOSE r \in {Body(x) : x \in {value}} : TRUE

\* Sequences over S, of length at most n, without repeated elements.
RECURSIVE SeqsNoRep(_, _)
SeqsNoRep(S, n) ==
    IF n = 0 THEN {<<>>}
    ELSE LET shorter == SeqsNoRep(S, n - 1)
             longest == {p \in shorter \X S : Len(p[1]) = n - 1 /\ p[2] \notin Range(p[1])}
         IN  shorter \cup {Append(p[1], p[2]) : p \in longest}

\* Python's None, and a key that is not in a dict.
Absent == [absent |-> TRUE]

(***************************************************************************)
(* Inputs: the supplier roster (rows of data/suppliers.csv after           *)
(* load_suppliers) and the news items (fetch_recent_news).                 *)
(***************************************************************************)
Supplier(id, name, country, material, cap) ==
    [supplier_id |-> id, name |-> name, country |-> country,
     material |-> material, capacity_tons_per_month |-> cap]

SupplierCatalogue ==
    { Supplier("S1", "Formosa Chips", "Taiwan", "Semiconductors", 100),
      Supplier("S2", "Suzano Papel", "Brazil", "Paper pulp", 50),
      Supplier("S3", "Nordic Steelworks", "Sweden", "Steel", 75) }

Text(words) == [is_none |-> FALSE, words |-> words]

NoneText == [is_none |-> TRUE, words |-> {}]

NewsItem(title, summary, relevance) ==
    [title |-> title, summary |-> summary, relevance_score |-> relevance]

NewsCatalogue ==
    { NewsItem(Text({"taiwan", "earthquake", "chip", "steel"}), Text({}), 90),
      NewsItem(Text({"brazil"}), Text({}), 50),
      NewsItem(Text({"sweden", "steel", "tariff"}), NoneText, 85) }

Rosters == SeqsNoRep(SupplierCatalogue, MaxRoster)

NewsLists == SeqsNoRep(NewsCatalogue, MaxNews)

(***************************************************************************)
(* networkx.DiGraph: nodes in insertion order, one attribute dict per      *)
(* node, directed edges.                                                   *)
(***************************************************************************)
EmptyGraph == [nodes |-> <<>>, attrs |-> <<>>, edges |-> {}]

NodeSet(g) == Range(g.nodes)

HasNode(g, n) == n \in NodeSet(g)

NodeAttrs(g, n) == g.attrs[CHOOSE i \in 1..Len(g.nodes) : g.nodes[i] = n]

\* The slip of a node list that takes a node a second time.
add_node_again(g, n, attr) == [g EXCEPT !.nodes = Append(@, n), !.attrs = Append(@, attr)]

\* G.add_node(n, **attr): a new node is appended; an existing node keeps its place
\* and its attribute dict is updated with attr.
add_node(g, n, attr) ==
    IF HasNode(g, n)
    THEN LET i == CHOOSE k \in 1..Len(g.nodes) : g.nodes[k] = n
             old == g.attrs[i]
             new == [f \in DOMAIN old \cup DOMAIN attr |->
                        IF f \in DOMAIN attr THEN attr[f] ELSE old[f]]
         IN  [g EXCEPT !.attrs[i] = new]
    ELSE [g EXCEPT !.nodes = Append(@, n), !.attrs = Append(@, attr)]

\* G.remove_node(n): the node, its attributes and its incident edges.
remove_node(g, n) ==
    LET keep == {i \in 1..Len(g.nodes) : g.nodes[i] # n}
        Idx(k) == CHOOSE i \in keep : Cardinality({j \in keep : j < i}) = k - 1
    IN  [nodes |-> [k \in 1..Cardinality(keep) |-> g.nodes[Idx(k)]],
         attrs |-> [k \in 1..Cardinality(keep) |-> g.attrs[Idx(k)]],
         edges |-> {e \in g.edges : e[1] # n /\ e[2] # n}]

Successors(g, n) == {e[2] : e \in {d \in g.edges : d[1] = n}}

\* Nodes at hop distance at most k from n (n itself at distance 0).
RECURSIVE Within(_, _, _)
Within(g, n, k) ==
    IF k = 0 THEN {n}
    ELSE UNION {{m} \cup Successors(g, m) : m \in Within(g, n, k - 1)}

\* The slip of taking the direct successors for the descendants.
DirectSuccessors(g, n) == Successors(g, n) \ {n}

\* nx.descendants(g, n): everything reachable from n, n excluded.
descendants(g, n) == Within(g, n, Len(g.nodes)) \ {n}

\* nx.shortest_path_length(g, n, target), for a target reachable from n.
shortest_path_length(g, n, target) ==
    CHOOSE k \in 0..Len(g.nodes) :
        /\ target \in Within(g, n, k)
        /\ \A j \in 0..(k - 1) : target \notin Within(g, n, j)

\* nx.is_directed_acyclic_graph(g)
is_directed_acyclic_graph(g) ==
    \A n \in NodeSet(g) : \A m \in Successors(g, n) : n \notin Within(g, m, Len(g.nodes))

(***************************************************************************)
(* GraphAgent                                                              *)
(***************************************************************************)
SupplierAttrs(sup) ==
    [type |-> "supplier", name |-> sup.name, country |-> sup.country,
     material |-> sup.material, capacity |-> sup.capacity_tons_per_month]

Downstream ==
    << [id |-> "F001", type |-> "factory", name |-> "Main Assembly Factory"],
       [id |-> "W001", type |-> "warehouse", name |-> "Central Distribution Warehouse"],
       [id |-> "C001", type |-> "customer", name |-> "Global Retail Customer"] >>

ToFactoryMaterials == {"Steel", "Semiconductors", "Precision bearings"}

ToWarehouseMaterials == {"Paper pulp", "Nuts & oils"}

RECURSIVE AddSupplierNodes(_, _)
AddSupplierNodes(g, suppliers) ==
    IF suppliers = <<>> THEN g
    ELSE Bind(add_node(g, Head(suppliers).supplier_id, SupplierAttrs(Head(suppliers))),
              LAMBDA g1 : AddSupplierNodes(g1, Tail(suppliers)))

RECURSIVE AddDownstreamNodes(_, _)
AddDownstreamNodes(g, ds) ==
    IF ds = <<>> THEN g
    ELSE Bind(add_node(g, Head(ds).id, [type |-> Head(ds).type, name |-> Head(ds).name]),
              LAMBDA g1 : AddDownstreamNodes(g1, Tail(ds)))

\* The slip of wiring the direct-to-warehouse materials to the customer.
SupplierEdgesToCustomer(sup) ==
    (IF sup.material \in ToFactoryMaterials THEN {<<sup.supplier_id, "F001">>} ELSE {})
    \cup (IF sup.material \in ToWarehouseMaterials THEN {<<sup.supplier_id, "C001">>} ELSE {})

\* The edges one supplier gets, by its material.
SupplierEdges(sup) ==
    (IF sup.material \in ToFactoryMaterials THEN {<<sup.supplier_id, "F001">>} ELSE {})
    \cup (IF sup.material \in ToWarehouseMaterials THEN {<<sup.supplier_id, "W001">>} ELSE {})

AddSupplierEdges(g, suppliers) ==
    [g EXCEPT !.edges = @ \cup UNION {SupplierEdges(suppliers[i]) : i \in 1..Len(suppliers)}]

\* The graph the builder starts from: GraphAgent.G as the previous call left it
\* (the DiGraph is created once, in __init__, and never replaced or cleared).
GraphBeforeBuild(g) == g

\* GraphAgent.build_graph_from_suppliers: self.G afterwards.
build_graph_from_suppliers(g, suppliers) ==
    IF suppliers = <<>> THEN g
    ELSE Bind(AddSupplierNodes(GraphBeforeBuild(g), suppliers), LAMBDA g1 :
         Bind(AddDownstreamNodes(g1, Downstream), LAMBDA g2 :
         Bind(AddSupplierEdges(g2, suppliers), LAMBDA g3 :
              [g3 EXCEPT !.edges = @ \cup {<<"F001", "W001">>, <<"W001", "C001">>}])))

\* GraphAgent.get_graph_stats without the critical-node heuristic, which nothing
\* downstream reads.
get_graph_stats(g) ==
    IF Len(g.nodes) = 0 THEN [valid |-> FALSE]
    ELSE [valid |-> TRUE,
          node_count |-> Len(g.nodes),
          edge_count |-> Cardinality(g.edges),
          supplier_count |-> Cardinality({i \in 1..Len(g.nodes) : g.attrs[i].type = "supplier"}),
          has_cycles |-> ~is_directed_acyclic_graph(g)]

Raised(exc) == [raised |-> TRUE, exc |-> exc]

Returned(value) == [raised |-> FALSE, value |-> value]

\* GraphAgent.run on the graph build_graph_from_suppliers left: stats["node_count"]
\* is a KeyError when get_graph_stats answered {"valid": False}.
GraphAgentRun(g) ==
    LET stats == get_graph_stats(g)
    IN  IF ~stats.valid THEN Raised("KeyError")
        ELSE Returned([graph_built |-> stats.valid,
                       node_count |-> stats.node_count,
                       edge_count |-> stats.edge_count,
                       supplier_count |-> stats.supplier_count])

(***************************************************************************)
(* RiskAgent                                                               *)
(***************************************************************************)
RISK_PATTERNS ==
    [geopolitical |-> {"tariff", "sanction", "trade war", "embargo", "ban", "restriction"},
     disaster |-> {"earthquake", "flood", "typhoon", "hurricane", "drought", "storm", "weather"},
     strike |-> {"strike", "protest", "labor dispute", "shutdown", "walkout"},
     outage |-> {"power outage", "blackout", "fire", "explosion", "cyberattack", "hack"},
     shortage |-> {"shortage", "supply constraint", "capacity reduction", "delay", "backlog"}]

\* COUNTRY_RISK_BASE.get(country, 0.3), in thousandths
CountryRiskBase(country) ==
    CASE country = "China" -> 750
      [] country = "Taiwan" -> 850
      [] country = "Brazil" -> 450
      [] country = "Sweden" -> 150
      [] country = "Germany" -> 200
      [] OTHER -> 300

\* MATERIAL_SENSITIVITY.get(material), the empty set for a material not listed
MaterialSensitivity(material) ==
    CASE material = "Semiconductors" -> {"outage", "geopolitical", "shortage", "cyberattack"}
      [] material = "Steel" -> {"tariff", "geopolitical", "strike", "shortage"}
      [] material = "Paper pulp" -> {"strike", "disaster"}
      [] material = "Nuts & oils" -> {"disaster", "shortage"}
      [] material = "Precision bearings" -> {"outage", "shortage"}
      [] OTHER -> {}

\* Word tokens that hold a shorter needle: <<needle, word>>, the needle at the
\* start of the word or further inside it.
WordPrefixes ==
    { <<"taiwan", "taiwanese">>, <<"chip", "chips">>, <<"oil", "oils">>,
      <<"steel", "steelworks">> }

InnerSubstrings == { <<"paper", "newspaper">>, <<"iron", "environment">> }

\* Python's `needle in text`, on a text given as its word tokens.
InText(needle, words) ==
    \E w \in words : needle = w \/ <<needle, w>> \in WordPrefixes \cup InnerSubstrings

\* re.search(r'\bprefix', text): a word that starts with prefix.
WordStart(prefix, words) == \E w \in words : prefix = w \/ <<prefix, w>> \in WordPrefixes

\* RiskAgent.extract_risk_types: whole-word keyword matches, as a set of categories.
extract_risk_types(words) ==
    LET detected == {rtype \in DOMAIN RISK_PATTERNS : RISK_PATTERNS[rtype] \cap words # {}}
    IN  IF detected # {} THEN detected ELSE {"general"}

\* RiskAgent.extract_entities: the country and material regular expressions.
EntityCountries(words) ==
    {c \in {"China", "Taiwan", "Brazil", "Sweden", "Germany"} :
        CASE c = "China" -> {"china", "chinese"} \cap words # {}
          [] c = "Taiwan" -> "taiwan" \in words
          [] c = "Brazil" -> {"brazil", "brasil"} \cap words # {}
          [] c = "Sweden" -> {"sweden", "swedish"} \cap words # {}
          [] c = "Germany" -> {"germany", "german"} \cap words # {}}

EntityMaterials(words) ==
    {m \in {"Semiconductors", "Steel", "Paper pulp", "Nuts & oils", "Precision bearings"} :
        CASE m = "Semiconductors" ->
                WordStart("semiconductor", words) \/ InText("chip", words) \/ InText("semicon", words)
          [] m = "Steel" -> WordStart("steel", words) \/ InText("iron", words)
          [] m = "Paper pulp" -> WordStart("pulp", words) \/ InText("paper", words)
          [] m = "Nuts & oils" ->
                WordStart("nuts", words) \/ InText("oils", words) \/ InText("oil", words)
          [] m = "Precision bearings" -> WordStart("bearing", words) \/ InText("bearings", words)}

\* round(x, 2) of a value in thousandths, to hundredths (half to even).
Round2(thousandths) ==
    LET q == thousandths \div 10
        r == thousandths % 10
    IN  IF r > 5 \/ (r = 5 /\ q % 2 = 1) THEN q + 1 ELSE q

\* The bonus the loop over risk_types adds: 0.25 for every extracted category that is
\* in the material's sensitivity list.
MaterialBonus(material, risk_types) ==
    250 * Cardinality(risk_types \cap MaterialSensitivity(material))

\* RiskAgent.score_risk, in hundredths. title + " " + summary is a TypeError when
\* either is None.
score_risk(news_item, node_data) ==
    IF news_item.title.is_none \/ news_item.summary.is_none THEN Raised("TypeError")
    ELSE LET words == news_item.title.words \cup news_item.summary.words
             country == node_data.country
             material == node_data.material
             base == CountryRiskBase(country)
                     + MaterialBonus(material, extract_risk_types(words))
                     + news_item.relevance_score * 3
                     + (IF country \in EntityCountries(words) THEN 150 ELSE 0)
                     + (IF material \in EntityMaterials(words) THEN 200 ELSE 0)
         IN  Returned(Min(Round2(base), 100))

\* str.lower() and str.split() of the names the roster uses.
Lower(s) ==
    CASE s = "Taiwan" -> "taiwan"
      [] s = "Brazil" -> "brazil"
      [] s = "Sweden" -> "sweden"
      [] s = "China" -> "china"
      [] s = "Germany" -> "germany"
      [] s = "Semiconductors" -> "semiconductors"
      [] s = "Paper pulp" -> "paper pulp"
      [] s = "Steel" -> "steel"
      [] s = "Formosa Chips" -> "formosa chips"
      [] s = "Suzano Papel" -> "suzano papel"
      [] s = "Nordic Steelworks" -> "nordic steelworks"
      [] s = "Peru" -> "peru"
      [] s = "Cotton" -> "cotton"
      [] s = "Acme Cotton" -> "acme cotton"
      [] OTHER -> s

SplitWords(s) ==
    CASE s = "paper pulp" -> <<"paper", "pulp">>
      [] s = "formosa chips" -> <<"formosa", "chips">>
      [] s = "suzano papel" -> <<"suzano", "papel">>
      [] s = "nordic steelworks" -> <<"nordic", "steelworks">>
      [] s = "acme cotton" -> <<"acme", "cotton">>
      [] OTHER -> <<s>>

NoSpace(s) ==
    CASE s = "paper pulp" -> "paperpulp"
      [] OTHER -> s

\* The three tests of find_affected_nodes for one supplier node.
NodeMatches(data, words) ==
    LET country == Lower(data.country)
        material == Lower(data.material)
        name == Lower(data.name)
        country_match == InText(country, words)
        material_match == \/ InText(material, words)
                          \/ InText(NoSpace(material), words)
                          \/ InText(SplitWords(material)[1], words)
        name_match == InText(name, words) \/ \E w \in Range(SplitWords(name)) : InText(w, words)
    IN  country_match \/ material_match \/ name_match

RiskRecord(node, data, score, news_item, words) ==
    [node_id |-> node, name |-> data.name, country |-> data.country,
     material |-> data.material, risk_score |-> score,
     risk_types |-> extract_risk_types(words),
     news_title |-> news_item.title, news_summary |-> news_item.summary]

\* The slip of leaving out the test of the node type: a node without country and
\* material has "" for both, and "" is in every text.
RECURSIVE AffectedFromAnyType(_, _, _, _)
AffectedFromAnyType(g, news_item, i, acc) ==
    IF i > Len(g.nodes) THEN Returned(acc)
    ELSE LET raw == g.attrs[i]
             data == [f \in {"type", "name", "country", "material"} |->
                         IF f \in DOMAIN raw THEN raw[f] ELSE ""]
             words == news_item.title.words \cup news_item.summary.words
         IN  IF data.type = "supplier" /\ ~NodeMatches(data, words)
             THEN AffectedFromAnyType(g, news_item, i + 1, acc)
             ELSE Bind(score_risk(news_item, data), LAMBDA score :
                  IF score.raised THEN score
                  ELSE Bind(Append(acc, RiskRecord(g.nodes[i], data, score.value, news_item, words)),
                            LAMBDA more : AffectedFromAnyType(g, news_item, i + 1, more)))

\* RiskAgent.find_affected_nodes over the nodes from position i on: the records in
\* node order, or the exception score_risk raised.
RECURSIVE AffectedFrom(_, _, _, _)
AffectedFrom(g, news_item, i, acc) ==
    IF i > Len(g.nodes) THEN Returned(acc)
    ELSE LET data == g.attrs[i]
             words == news_item.title.words \cup news_item.summary.words
         IN  IF data.type # "supplier" \/ ~NodeMatches(data, words)
             THEN AffectedFrom(g, news_item, i + 1, acc)
             ELSE Bind(score_risk(news_item, data), LAMBDA score :
                  IF score.raised THEN score
                  ELSE Bind(Append(acc, RiskRecord(g.nodes[i], data, score.value, news_item, words)),
                            LAMBDA more : AffectedFrom(g, news_item, i + 1, more)))

find_affected_nodes(g, news_item) == AffectedFrom(g, news_item, 1, <<>>)

\* sorted(seq, key=..., reverse=True) and list.sort(key=..., reverse=True): stable,
\* equal keys keep their order. key[i] is the sort key of seq[i].
StableSortDesc(seq, key) ==
    LET n == Len(seq)
        Rank(i) == 1 + Cardinality({j \in 1..n : key[j] > key[i] \/ (key[j] = key[i] /\ j < i)})
    IN  [r \in 1..n |-> seq[CHOOSE i \in 1..n : Rank(i) = r]]

SeqMax(seq, floor) ==
    IF seq = <<>> THEN floor
    ELSE CHOOSE m \in Range(seq) \cup {floor} : \A x \in Range(seq) \cup {floor} : x <= m

\* The loop of RiskAgent.run over the news items: all_risks, or the exception one
\* signal's scoring raised (nothing in the loop catches it).
RECURSIVE CollectRisks(_, _, _)
CollectRisks(g, news_items, acc) ==
    IF news_items = <<>> THEN Returned(acc)
    ELSE Bind(find_affected_nodes(g, Head(news_items)), LAMBDA affected :
         IF affected.raised THEN affected
         ELSE Bind(acc \o affected.value, LAMBDA more : CollectRisks(g, Tail(news_items), more)))

RiskScores(risk_list) == [i \in 1..Len(risk_list) |-> risk_list[i].risk_score]

\* RiskAgent.run, given whether memory holds a graph. The early return has no
\* total_risks_found key; its reader takes 0 for it.
RiskAgentRun(news_items, g, have_graph) ==
    IF ~have_graph \/ Len(g.nodes) = 0
    THEN Returned([risks_detected |-> <<>>, max_severity |-> 0, total_risks_found |-> 0])
    ELSE Bind(CollectRisks(g, news_items, <<>>), LAMBDA all :
         IF all.raised THEN all
         ELSE Bind(RiskScores(all.value), LAMBDA scores :
              Returned([risks_detected |-> StableSortDesc(all.value, scores),
                        max_severity |-> SeqMax(scores, 0),
                        total_risks_found |-> Len(all.value)])))

(***************************************************************************)
(* SimulationAgent                                                         *)
(***************************************************************************)
DEFAULT_DELAY_DAYS_PER_LEVEL == 3

CAPACITY_REDUCTION_SEVERE == 80

CAPACITY_REDUCTION_MODERATE == 40

CAPACITY_REDUCTION_MILD == 20

NODE_FAILURE_SEVERITY == 90

SIMULATE_TOP_N == 5

\* The slip of a moderate tier that starts at 0.6.
DisruptionStrengthFrom60(severity) ==
    IF severity >= 80 THEN [capacity_loss |-> 80, delay_multiplier |-> 15]
    ELSE IF severity >= 60 THEN [capacity_loss |-> 40, delay_multiplier |-> 10]
    ELSE [capacity_loss |-> 20, delay_multiplier |-> 7]

\* capacity loss in percent and delay multiplier in tenths, by severity (hundredths)
DisruptionStrength(severity) ==
    IF severity >= 80 THEN [capacity_loss |-> CAPACITY_REDUCTION_SEVERE, delay_multiplier |-> 15]
    ELSE IF severity >= 50 THEN [capacity_loss |-> CAPACITY_REDUCTION_MODERATE, delay_multiplier |-> 10]
    ELSE [capacity_loss |-> CAPACITY_REDUCTION_MILD, delay_multiplier |-> 7]

\* max(0, orig_cap * (1 - capacity_loss)); the roster's capacities are multiples of 5,
\* so the product is a whole number.
ReducedCapacity(orig_cap, capacity_loss) == Max(0, (orig_cap * (100 - capacity_loss)) \div 100)

SetCapacity(g, n, cap) ==
    LET i == CHOOSE k \in 1..Len(g.nodes) : g.nodes[k] = n
    IN  [g EXCEPT !.attrs[i] = [@ EXCEPT !.capacity = cap]]

\* The disruption applied to the working graph (node_id is in it).
Disrupt(sim_G, node_id, severity) ==
    IF severity >= NODE_FAILURE_SEVERITY THEN remove_node(sim_G, node_id)
    ELSE IF "capacity" \in DOMAIN NodeAttrs(sim_G, node_id)
         THEN SetCapacity(sim_G, node_id,
                  ReducedCapacity(NodeAttrs(sim_G, node_id).capacity,
                                  DisruptionStrength(severity).capacity_loss))
         ELSE sim_G

\* The slip of disrupting self.G itself (sim_G = self.G, without .copy()).
CanonicalAliased(self_G, sim_G) == sim_G

\* self.G once the working graph has been disrupted: sim_G is self.G.copy(), a graph
\* of its own with its own attribute dicts, so self.G is what it was.
CanonicalAfterDisruption(self_G, sim_G) == self_G

\* The slip of scaling the percentage once too often.
RoundDivScaled(a, b) == (20 * a + b) \div (2 * b)

\* round(x, 1) of a / b, in tenths of the unit a / b is written in thousandths of
RoundDiv(a, b) == (2 * a + b) \div (2 * b)

\* The scenario figures, read off the working graph and self.G after the disruption.
Scenario(self_G, sim_G, risk) ==
    LET node_id == risk.node_id
        severity == risk.risk_score
        strength == DisruptionStrength(severity)
        capacity_reduction == severity < NODE_FAILURE_SEVERITY
    IN  Bind(IF HasNode(sim_G, node_id)
             THEN descendants(sim_G, node_id) \cup {node_id} ELSE {node_id}, LAMBDA affected :
        Bind(Within(self_G, node_id, Len(self_G.nodes)), LAMBDA reach :
        LET delays == {shortest_path_length(self_G, node_id, t)
                           * DEFAULT_DELAY_DAYS_PER_LEVEL * strength.delay_multiplier :
                       t \in affected \cap reach}
            original_reachable == Cardinality(reach \ {node_id}) + 1
            sim_reachable == IF capacity_reduction THEN Cardinality(affected) ELSE 1
        IN  [node_id |-> node_id,
             disruption_type |-> IF capacity_reduction THEN "capacity_reduction"
                                 ELSE "node_failure",
             severity_used |-> severity,
             capacity_loss_pct |-> strength.capacity_loss,
             estimated_delay_days |-> CHOOSE d \in delays \cup {0} : \A e \in delays \cup {0} : e <= d,
             affected_nodes_count |-> Cardinality(affected),
             service_level_impact_pct |->
                 IF original_reachable > 0
                 THEN RoundDiv((original_reachable - sim_reachable) * 1000, original_reachable)
                 ELSE 1000,
             news_title |-> risk.news_title]))

\* SimulationAgent.simulate_single_risk: the scenario, self.G afterwards and the
\* working copy the call leaves behind, or the exception raised. sim_G.nodes[node_id] is a KeyError for a node the graph lacks;
\* shortest_path_length raises NodeNotFound for a source self.G lacks.
simulate_single_risk(self_G, risk) ==
    IF ~HasNode(self_G, risk.node_id)
    THEN [raised |-> TRUE, exc |-> "KeyError", G |-> self_G]
    ELSE Bind(Disrupt(self_G, risk.node_id, risk.risk_score), LAMBDA sim_G :
         Bind(CanonicalAfterDisruption(self_G, sim_G), LAMBDA G_after :
         IF ~HasNode(G_after, risk.node_id)
         THEN [raised |-> TRUE, exc |-> "NodeNotFound", G |-> G_after]
         ELSE [raised |-> FALSE, value |-> Scenario(G_after, sim_G, risk), G |-> G_after,
               sim_G |-> sim_G]))

\* The slip of simulating every risk (no [:5]).
SelectedWithoutCut(risk_list) == StableSortDesc(risk_list, RiskScores(risk_list))

\* The risks SimulationAgent.run simulates, in the order it simulates them.
SelectedRisks(risk_list) ==
    Bind(StableSortDesc(risk_list, RiskScores(risk_list)), LAMBDA sorted :
         SubSeq(sorted, 1, Min(SIMULATE_TOP_N, Len(sorted))))

\* The loop of SimulationAgent.run over the given risks, in the given order: the
\* scenarios and self.G afterwards, or the exception one simulation raised (nothing
\* in the loop catches it).
RECURSIVE SimulateAll(_, _, _)
SimulateAll(self_G, risks, scenarios) ==
    IF risks = <<>> THEN [raised |-> FALSE, value |-> scenarios, G |-> self_G]
    ELSE Bind(simulate_single_risk(self_G, Head(risks)), LAMBDA one :
         IF one.raised THEN one
         ELSE Bind(Append(scenarios, one.value), LAMBDA more :
                   SimulateAll(one.G, Tail(risks), more)))

SimulationResult(scenarios) ==
    [scenarios |-> scenarios,
     worst_case_delay_days |->
         SeqMax([i \in 1..Len(scenarios) |-> scenarios[i].estimated_delay_days], 0),
     number_of_simulations |-> Len(scenarios)]

\* SimulationAgent.run: load_graph raises ValueError without a graph in memory.
SimulationAgentRun(self_G, have_graph, risks) ==
    IF Len(risks.risks_detected) = 0
    THEN [raised |-> FALSE, value |-> SimulationResult(<<>>), G |-> self_G]
    ELSE IF ~have_graph \/ Len(self_G.nodes) = 0
    THEN [raised |-> TRUE, exc |-> "ValueError", G |-> self_G]
    ELSE Bind(SelectedRisks(risks.risks_detected), LAMBDA selected :
         Bind(SimulateAll(self_G, selected, <<>>), LAMBDA all :
         IF all.raised THEN all
         ELSE [raised |-> FALSE, value |-> SimulationResult(all.value), G |-> all.G]))

(***************************************************************************)
(* DecisionAgent                                                           *)
(***************************************************************************)
CRITICAL_RISK_THRESHOLD == 85

HIGH_RISK_THRESHOLD == 65

MEDIUM_RISK_THRESHOLD == 40

CRITICAL_DELAY_DAYS == 14

HIGH_DELAY_DAYS == 7

CRITICAL_SERVICE_IMPACT == 60

HIGH_SERVICE_IMPACT == 40

MEDIUM_SERVICE_IMPACT == 20

\* MATERIAL_CRITICALITY.get(material, 2)
MaterialCriticality(material) ==
    CASE material = "Semiconductors" -> 5
      [] material = "Steel" -> 4
      [] material = "Paper pulp" -> 2
      [] material = "Nuts & oils" -> 3
      [] material = "Precision bearings" -> 4
      [] OTHER -> 2

\* COUNTRY_GEOPOLITICAL_RISK.get(country, 2)
CountryGeopoliticalRisk(country) ==
    CASE country = "China" -> 4
      [] country = "Taiwan" -> 5
      [] country = "Brazil" -> 2
      [] country = "Sweden" -> 1
      [] country = "Germany" -> 1
      [] country = "South Korea" -> 3
      [] country = "Japan" -> 2
      [] country = "Vietnam" -> 2
      [] country = "India" -> 2
      [] OTHER -> 2

\* ACTION_LIBRARY: urgency and lead_time_days
ActionUrgency(act) ==
    CASE act = "do_nothing" -> 1
      [] act = "increase_monitoring" -> 2
      [] act = "notify_procurement" -> 3
      [] act = "activate_alternative_source" -> 4
      [] act = "increase_safety_stock" -> 4
      [] act = "expedite_shipment" -> 5
      [] act = "diversify_suppliers" -> 2

ActionLeadTime(act) ==
    CASE act = "do_nothing" -> 0
      [] act = "increase_monitoring" -> 1
      [] act = "notify_procurement" -> 2
      [] act = "activate_alternative_source" -> 3
      [] act = "increase_safety_stock" -> 1
      [] act = "expedite_shipment" -> 0
      [] act = "diversify_suppliers" -> 180

\* The slip of cutting the quotient off instead of rounding it.
RoundDown(a, b) == a \div b

\* The nearest whole number to a / b, a tie going to the even one (Python's round).
RoundHalfEven(a, b) ==
    LET q == a \div b
        r == a % b
    IN  IF 2 * r > b \/ (2 * r = b /\ q % 2 = 1) THEN q + 1 ELSE q

\* DecisionAgent.calculate_confidence, in hundredths. The sum is taken in units of
\* 1/21000: severity/100, delay/140 * 0.2, impact/600 * 0.2, criticality/25, risk/25.
calculate_confidence(risk, sim) ==
    LET severity == risk.risk_score
        delay_days == sim.estimated_delay_days
        service_impact == sim.service_level_impact_pct
        base_confidence == Min(severity, 100) * 210
        delay_factor == Min(delay_days, CRITICAL_DELAY_DAYS * 10) * 30
        service_factor == Min(service_impact, CRITICAL_SERVICE_IMPACT * 10) * 7
        criticality_factor == MaterialCriticality(risk.material) * 840
        country_factor == CountryGeopoliticalRisk(risk.country) * 840
        total == Min(base_confidence + delay_factor + service_factor
                     + criticality_factor + country_factor, 21000)
    IN  RoundHalfEven(total, 210)

\* list.remove(x): the first occurrence goes.
RemoveFirst(seq, x) ==
    LET i == CHOOSE k \in 1..Len(seq) : seq[k] = x /\ \A j \in 1..(k - 1) : seq[j] # x
    IN  SubSeq(seq, 1, i - 1) \o SubSeq(seq, i + 1, Len(seq))

\* The slip of leaving repeated actions in the list.
KeepRepeated(seq, seen) == seq

\* The first occurrence of every element, in order.
RECURSIVE Unique(_, _)
Unique(seq, seen) ==
    IF seq = <<>> THEN <<>>
    ELSE IF Head(seq) \in seen THEN Unique(Tail(seq), seen)
    ELSE <<Head(seq)>> \o Unique(Tail(seq), seen \cup {Head(seq)})

\* The tests of the cascade, on the figures of the risk and of the scenario.
CriticalTier(risk, sim) ==
    \/ risk.risk_score >= CRITICAL_RISK_THRESHOLD
    \/ sim.estimated_delay_days >= CRITICAL_DELAY_DAYS * 10
    \/ sim.service_level_impact_pct >= CRITICAL_SERVICE_IMPACT * 10

HighTier(risk, sim) ==
    \/ risk.risk_score >= HIGH_RISK_THRESHOLD
    \/ sim.estimated_delay_days >= HIGH_DELAY_DAYS * 10
    \/ sim.service_level_impact_pct >= HIGH_SERVICE_IMPACT * 10

MediumTier(risk, sim) ==
    \/ risk.risk_score >= MEDIUM_RISK_THRESHOLD
    \/ sim.service_level_impact_pct >= MEDIUM_SERVICE_IMPACT * 10

\* The slip of taking every critical scenario for a capacity reduction.
CriticalActionsStockOnly(risk, sim) ==
    <<"increase_safety_stock", "activate_alternative_source">>
    \o (IF MaterialCriticality(risk.material) >= 4 /\ risk.country \in {"China", "Taiwan"}
        THEN <<"diversify_suppliers">> ELSE <<>>)

\* The actions appended in the critical branch.
CriticalActions(risk, sim) ==
    (IF sim.disruption_type = "node_failure"
     THEN <<"expedite_shipment", "activate_alternative_source">>
     ELSE <<"increase_safety_stock", "activate_alternative_source">>)
    \o (IF MaterialCriticality(risk.material) >= 4 /\ risk.country \in {"China", "Taiwan"}
        THEN <<"diversify_suppliers">> ELSE <<>>)

\* The slip of reading the comment "many (>3)" for the test `affected_count >= 3`.
HighActionsAboveThree(risk, sim) ==
    (IF sim.estimated_delay_days > 0 /\ sim.estimated_delay_days < HIGH_DELAY_DAYS * 10
     THEN <<"increase_safety_stock">> ELSE <<>>)
    \o (IF sim.affected_nodes_count > 3
        THEN <<"activate_alternative_source">> ELSE <<"notify_procurement">>)
    \o (IF CountryGeopoliticalRisk(risk.country) >= 3
        THEN <<"diversify_suppliers">> ELSE <<>>)

\* The actions appended in the high branch.
HighActions(risk, sim) ==
    (IF sim.estimated_delay_days > 0 /\ sim.estimated_delay_days < HIGH_DELAY_DAYS * 10
     THEN <<"increase_safety_stock">> ELSE <<>>)
    \o (IF sim.affected_nodes_count >= 3
        THEN <<"activate_alternative_source">> ELSE <<"notify_procurement">>)
    \o (IF CountryGeopoliticalRisk(risk.country) >= 3
        THEN <<"diversify_suppliers">> ELSE <<>>)

\* The actions of the tier the scenario falls in.
TierActions(risk, sim) ==
    IF CriticalTier(risk, sim) THEN CriticalActions(risk, sim)
    ELSE IF HighTier(risk, sim) THEN HighActions(risk, sim)
    ELSE IF MediumTier(risk, sim) THEN <<"notify_procurement", "increase_monitoring">>
    ELSE <<"increase_monitoring">>

\* The slip of downgrading on the severity alone.
DowngradeOnSeverity(risk, sim) == risk.risk_score < MEDIUM_RISK_THRESHOLD

\* The test of the downgrade to do_nothing.
Downgrade(risk, sim) ==
    /\ sim.estimated_delay_days < 30
    /\ sim.service_level_impact_pct < 200
    /\ risk.risk_score < MEDIUM_RISK_THRESHOLD

\* The slip of leaving the upgrade out.
UpgradeLeftOut(risk, actions) == actions

\* The upgrade for a critical material: increase_monitoring is removed and
\* notify_procurement appended.
Upgrade(risk, actions) ==
    IF MaterialCriticality(risk.material) >= 4 /\ "increase_monitoring" \in Range(actions)
    THEN Append(RemoveFirst(actions, "increase_monitoring"), "notify_procurement")
    ELSE actions

\* The downgrade and the upgrade applied to the tier's actions.
AdjustedActions(risk, sim) ==
    Upgrade(risk, IF Downgrade(risk, sim) THEN <<"do_nothing">> ELSE TierActions(risk, sim))

ActionUrgencies(actions) == [i \in 1..Len(actions) |-> ActionUrgency(actions[i])]

\* DecisionAgent.decide_for_scenario
decide_for_scenario(risk, sim) ==
    Bind(calculate_confidence(risk, sim), LAMBDA confidence :
    Bind(Unique(AdjustedActions(risk, sim), {}), LAMBDA unique_actions :
    Bind(StableSortDesc(unique_actions, ActionUrgencies(unique_actions)), LAMBDA sorted_actions :
        [node_id |-> risk.node_id,
         name |-> risk.name,
         material |-> risk.material,
         country |-> risk.country,
         risk_score |-> risk.risk_score,
         delay_days |-> sim.estimated_delay_days,
         service_impact_pct |-> sim.service_level_impact_pct,
         affected_nodes_count |-> sim.affected_nodes_count,
         recommended_actions |->
             [i \in 1..Len(sorted_actions) |->
                 [action |-> sorted_actions[i],
                  urgency |-> ActionUrgency(sorted_actions[i]),
                  estimated_confidence |-> Min(confidence, 100),
                  lead_time_days |-> ActionLeadTime(sorted_actions[i])]],
         primary_action |-> IF Len(sorted_actions) > 0 THEN sorted_actions[1]
                            ELSE "do_nothing",
         confidence |-> confidence])))

EmptyDecisionResult ==
    [recommended_actions |-> <<>>, overall_confidence |-> 0, decision_count |-> 0,
     top_recommendation |-> "do_nothing"]

\* The loop of DecisionAgent.run: one decision per scenario whose node_id some risk
\* has, built with the first such risk of the list.
MatchDecisions(risk_list, scenarios) ==
    LET FirstRisk(sim) ==
            LET hits == {i \in 1..Len(risk_list) : risk_list[i].node_id = sim.node_id}
            IN  IF hits = {} THEN 0 ELSE CHOOSE i \in hits : \A j \in hits : i <= j
        matched == SelectSeq([k \in 1..Len(scenarios) |-> [sim |-> scenarios[k], at |-> FirstRisk(scenarios[k])]],
                             LAMBDA m : m.at # 0)
    IN  [k \in 1..Len(matched) |-> decide_for_scenario(risk_list[matched[k].at], matched[k].sim)]

RECURSIVE SeqSum(_)
SeqSum(seq) == IF seq = <<>> THEN 0 ELSE Head(seq) + SeqSum(Tail(seq))

DecisionConfidences(decisions) == [i \in 1..Len(decisions) |-> decisions[i].confidence]

\* The slip of leaving the decisions in the order of the scenarios (no sort).
RankUnsorted(decisions) == decisions

\* The ranking of the decisions: decisions.sort(key=confidence, reverse=True).
RankDecisions(decisions) == StableSortDesc(decisions, DecisionConfidences(decisions))

\* The slip of averaging over every decision.
AllConfidences(decisions) == DecisionConfidences(decisions)

\* [d["confidence"] for d in decisions[:3]]
TopConfidences(decisions) == SubSeq(DecisionConfidences(decisions), 1, Min(3, Len(decisions)))

\* DecisionAgent.run on the two lists (a missing input counts as an empty list).
DecisionAgentRun(risk_list, scenarios) ==
    IF Len(risk_list) = 0 \/ Len(scenarios) = 0 THEN EmptyDecisionResult
    ELSE Bind(MatchDecisions(risk_list, scenarios), LAMBDA unranked :
         Bind(RankDecisions(unranked), LAMBDA decisions :
         Bind(TopConfidences(decisions), LAMBDA top_confidences :
             [recommended_actions |-> decisions,
              overall_confidence |->
                  IF Len(decisions) > 0
                  THEN Min(RoundHalfEven(SeqSum(top_confidences), Len(top_confidences)), 100)
                  ELSE 0,
              decision_count |-> Len(decisions),
              top_recommendation |->
                  IF Len(decisions) > 0 THEN decisions[1].primary_action ELSE "do_nothing"])))

\* A dict that has none of the keys DecisionAgent.run reads.
EmptyDict == [no_key |-> TRUE]

\* dict.get(key, default)
DictGet(d, key, default) == IF key \in DOMAIN d THEN d[key] ELSE default

\* The slip of leaving out `if x is None: x = {}`.
NoneGuardLeftOut(x) == x

\* `if risks is None: risks = {}`, and the same for simulation_results.
NoneGuard(x) == IF x = Absent THEN EmptyDict ELSE x

\* DecisionAgent.run on its two arguments as the caller passes them (None is Absent):
\* .get on None would be an AttributeError.
DecisionRun(risks, simulation_results) ==
    Bind(NoneGuard(risks), LAMBDA r :
    Bind(NoneGuard(simulation_results), LAMBDA sr :
        IF r = Absent \/ sr = Absent THEN Raised("AttributeError")
        ELSE Returned(DecisionAgentRun(DictGet(r, "risks_detected", <<>>),
                                       DictGet(sr, "scenarios", <<>>)))))

(***************************************************************************)
(* AgentMemory and Orchestrator.run_single_cycle                           *)
(***************************************************************************)
ResultKeys ==
    {"ingestion_result", "graph_result", "risk_result", "simulation_result", "decision_result"}

\* AgentMemory.__init__: an empty store.
EmptyMemory == [k \in ResultKeys |-> Absent]

\* AgentMemory.set
MemorySet(store, key, value) == [store EXCEPT ![key] = value]

\* AgentMemory.dump: a copy of the whole store.
MemoryDump(store) == store

\* The store as run_single_cycle finds it when it starts: nothing in the cycle calls
\* AgentMemory.clear, so it is the store the previous cycle left.
MemoryAtCycleStart(store) == store

NoResult == [status |-> "running"]

\* `except Exception` of run_single_cycle: every exception the agents raise is one.
Caught(exc) == TRUE

\* What the caller gets when a step raised exc with the store as given.
Failure(exc, store) ==
    IF Caught(exc)
    THEN [status |-> "error", error |-> exc, partial_results |-> MemoryDump(store)]
    ELSE [status |-> "exception", error |-> exc]

\* The dict a completed cycle returns.
Success(ingest, risk_result, sim_result, decision_result, persisted) ==
    [status |-> "success",
     persisted |-> persisted,
     summary |-> [suppliers |-> Len(ingest.suppliers),
                  news_items |-> Len(ingest.news_items),
                  risks_detected |-> risk_result.total_risks_found,
                  max_risk_severity |-> risk_result.max_severity,
                  worst_delay_days |-> sim_result.worst_case_delay_days,
                  decisions_count |-> decision_result.decision_count,
                  top_action |-> decision_result.top_recommendation]]

Init ==
    /\ G = EmptyGraph
    /\ graph_in_memory = FALSE
    /\ memory = EmptyMemory
    /\ pc = "idle"
    /\ ingest_result = Absent
    /\ result = NoResult
    /\ written = {}
    /\ prev_written = {}
    /\ repeat = FALSE
    /\ call = Absent
    /\ ret = Absent
    /\ RUNNING = TRUE
    /\ at = "off"
    /\ cycle_count = 0

\* A step of the cycle raised: the except clause returns the error dict.
Fail(exc) ==
    /\ result' = Failure(exc, memory)
    /\ pc' = "idle"
    /\ ingest_result' = Absent
    /\ UNCHANGED <<memory, written>>

\* Step 1, ingestion: the caller starts a cycle; IngestionAgent.run hands over the
\* roster and the news items (it catches its own errors) and the result is stored.
StartOfCycle(rosters, news_lists) ==
    /\ pc = "idle"
    /\ \E suppliers \in rosters, news_items \in news_lists :
          LET ingest == [suppliers |-> suppliers, news_items |-> news_items]
              store == MemoryAtCycleStart(memory)
          IN  /\ ingest_result' = ingest
              /\ repeat' = (result # NoResult /\ memory["ingestion_result"] = ingest)
              /\ memory' = MemorySet(store, "ingestion_result", ingest)
    /\ pc' = "graph"
    /\ result' = NoResult
    /\ prev_written' = written
    /\ written' = {"ingestion_result"}
    /\ UNCHANGED <<G, graph_in_memory>>

Ingest ==
    /\ StartOfCycle(Rosters, NewsLists)
    /\ UNCHANGED <<call, ret, LoopVars>>

\* Step 2, graph construction: GraphAgent.run.
BuildGraph ==
    /\ pc = "graph"
    /\ \E built \in {build_graph_from_suppliers(G, ingest_result.suppliers)} :
       \E run \in {GraphAgentRun(built)} :
          /\ G' = built
          /\ IF run.raised
             THEN Fail(run.exc) /\ UNCHANGED graph_in_memory
             ELSE /\ graph_in_memory' = TRUE
                  /\ memory' = MemorySet(memory, "graph_result", run.value)
                  /\ written' = written \cup {"graph_result"}
                  /\ pc' = "risk"
                  /\ UNCHANGED <<ingest_result, result>>
    /\ UNCHANGED <<prev_written, repeat>>
    /\ UNCHANGED <<call, ret, LoopVars>>

\* Step 3, risk detection: RiskAgent.run.
DetectRisks ==
    /\ pc = "risk"
    /\ \E run \in {RiskAgentRun(ingest_result.news_items, G, graph_in_memory)} :
          IF run.raised
          THEN Fail(run.exc)
          ELSE /\ memory' = MemorySet(memory, "risk_result", run.value)
               /\ written' = written \cup {"risk_result"}
               /\ pc' = "simulate"
               /\ UNCHANGED <<ingest_result, result>>
    /\ UNCHANGED <<G, graph_in_memory, prev_written, repeat>>
    /\ UNCHANGED <<call, ret, LoopVars>>

\* Step 4, impact simulation: SimulationAgent.run.
Simulate ==
    /\ pc = "simulate"
    /\ \E run \in {SimulationAgentRun(G, graph_in_memory, memory["risk_result"])} :
          /\ G' = run.G
          /\ IF run.raised
             THEN Fail(run.exc)
             ELSE /\ memory' = MemorySet(memory, "simulation_result", run.value)
                  /\ written' = written \cup {"simulation_result"}
                  /\ pc' = "decide"
                  /\ UNCHANGED <<ingest_result, result>>
    /\ UNCHANGED <<graph_in_memory, prev_written, repeat>>
    /\ UNCHANGED <<call, ret, LoopVars>>

\* Step 5, decisions, then persistence.save_cycle (which reports a failure instead
\* of raising it) and the return of the summary.
Decide ==
    /\ pc = "decide"
    /\ \E decision_result \in {DecisionAgentRun(memory["risk_result"].risks_detected,
                                                memory["simulation_result"].scenarios)} :
          /\ memory' = MemorySet(memory, "decision_result", decision_result)
          /\ \E persisted \in BOOLEAN :
                result' = Success(ingest_result, memory["risk_result"],
                                  memory["simulation_result"], decision_result, persisted)
    /\ written' = written \cup {"decision_result"}
    /\ pc' = "idle"
    /\ ingest_result' = Absent
    /\ UNCHANGED <<G, graph_in_memory, prev_written, repeat>>
    /\ UNCHANGED <<call, ret, LoopVars>>

Next == Ingest \/ BuildGraph \/ DetectRisks \/ Simulate \/ Decide

Spec == Init /\ [][Next]_vars

(***************************************************************************)
(* Direct calls of the agents' methods, on arguments of their own: the     *)
(* methods are public and their contracts are stated for every argument.   *)
(***************************************************************************)
\* A supplier whose country and material none of the tables list, and which
\* build_graph_from_suppliers links to neither the factory nor the warehouse.
SkeletonIds == {"F001", "W001", "C001"}

UnlistedSupplier == Supplier("S4", "Acme Cotton", "Peru", "Cotton", 40)

CallSuppliers == SupplierCatalogue \cup {UnlistedSupplier}

\* Word tokens of the signals handed to score_risk.
Vocabulary == {"taiwan", "sweden", "steel", "chip", "tariff", "strike", "earthquake"}

\* relevance_score values, in hundredths.
Relevances == {0, 50, 90, 100}

MainVars == <<G, graph_in_memory, memory, pc, ingest_result, result, written, prev_written, repeat>>

\* The calls of RiskAgent.score_risk: one signal and one supplier node's attributes.
ScoreRiskCalls ==
    {[fn |-> "score_risk", news_item |-> NewsItem(Text(words), summary, relevance),
      node_data |-> SupplierAttrs(sup)] :
        sup \in CallSuppliers, words \in SUBSET Vocabulary,
        summary \in {Text({}), NoneText}, relevance \in Relevances}

\* Values of the figures decide_for_scenario reads, on both sides of every threshold:
\* risk scores in hundredths, delays in tenths of a day, impacts in tenths of a percent.
CallScores == {0, 39, 40, 49, 50, 64, 65, 79, 80, 84, 85, 89, 90, 100}

DecideScores == {0, 39, 40, 64, 65, 84, 85, 100}

CallDelays == {0, 21, 30, 69, 70, 135, 140}

CallImpacts == {0, 199, 200, 400, 600, 750}

CallAffectedCounts == {1, 3, 4}

CallSignal == NewsItem(Text({"strike"}), Text({}), 50)

\* The calls of DecisionAgent.decide_for_scenario: a risk record and a scenario.
DecideCalls ==
    {[fn |-> "decide_for_scenario",
      risk |-> RiskRecord(sup.supplier_id, SupplierAttrs(sup), score, CallSignal, {"strike"}),
      sim |-> [node_id |-> sup.supplier_id, disruption_type |-> kind, severity_used |-> score,
               capacity_loss_pct |-> DisruptionStrength(score).capacity_loss,
               estimated_delay_days |-> delay, affected_nodes_count |-> count,
               service_level_impact_pct |-> impact, news_title |-> CallSignal.title]] :
        sup \in CallSuppliers, score \in DecideScores,
        kind \in {"node_failure", "capacity_reduction"},
        delay \in CallDelays, count \in CallAffectedCounts, impact \in CallImpacts}

\* The graphs simulate_single_risk is called on: built by a new GraphAgent from a
\* roster of at most MaxCallRoster suppliers.
CallGraphs ==
    {build_graph_from_suppliers(EmptyGraph, roster) :
        roster \in SeqsNoRep(CallSuppliers, MaxCallRoster) \ {<<>>}}

\* The calls of SimulationAgent.simulate_single_risk: self.G and a risk on one of its
\* nodes, or on a node it does not have.
SimulateCalls ==
    {[fn |-> "simulate_single_risk", G |-> c[1],
      risk |-> [node_id |-> c[2], risk_score |-> c[3], news_title |-> CallSignal.title]] :
        c \in {d \in CallGraphs \X ({"S1", "S2", "S3", "S4"} \cup SkeletonIds) \X CallScores :
                  d[2] \in NodeSet(d[1]) \/ d[2] = "S3"}}

\* One risk and its scenario, for the calls of DecisionAgent.run with something in
\* both inputs.
CallRisk == RiskRecord("S3", SupplierAttrs(Supplier("S3", "Nordic Steelworks", "Sweden", "Steel", 75)),
                       62, CallSignal, {"strike"})

\* A risk on a node other than the scenario's.
CallRiskElsewhere ==
    RiskRecord("S1", SupplierAttrs(Supplier("S1", "Formosa Chips", "Taiwan", "Semiconductors", 100)),
               95, CallSignal, {"strike"})

CallScenario ==
    simulate_single_risk(build_graph_from_suppliers(EmptyGraph,
                             <<Supplier("S3", "Nordic Steelworks", "Sweden", "Steel", 75)>>),
                         CallRisk).value

\* The calls of DecisionAgent.run: each input None, a dict without the list, a dict
\* with an empty list, or a dict with one record (the risk of the scenario, or a risk
\* on another node).
DecisionRunCalls ==
    {[fn |-> "DecisionAgent.run", risks |-> risks, simulation_results |-> sr] :
        risks \in {Absent, EmptyDict, [risks_detected |-> <<>>, max_severity |-> 0],
                   [risks_detected |-> <<CallRisk>>, max_severity |-> 62],
                   [risks_detected |-> <<CallRiskElsewhere>>, max_severity |-> 95]},
        sr \in {Absent, EmptyDict, SimulationResult(<<>>), SimulationResult(<<CallScenario>>)}}

\* Signals that name several suppliers at once, so that one cycle finds more risks
\* than SimulationAgent.run simulates.
WideNews ==
    {NewsItem(Text({"taiwan", "brazil", "sweden", "strike"}), Text({}), 90),
     NewsItem(Text({"taiwan", "brazil", "sweden"}), Text({}), 50),
     NewsItem(Text({"chip", "steel", "paper"}), Text({}), 0),
     NewsItem(Text({"taiwan", "sweden", "steel"}), Text({}), 50)}

\* The calls of steps 3 to 5 of a cycle (RiskAgent.run, SimulationAgent.run,
\* DecisionAgent.run) on a graph in memory and a list of signals.
AnalysisCalls ==
    {[fn |-> "analysis", G |-> build_graph_from_suppliers(EmptyGraph, roster),
      news_items |-> news_items] :
        roster \in SeqsNoRep(SupplierCatalogue, MaxAnalysisRoster) \ {<<>>},
        news_items \in SeqsNoRep(WideNews, MaxAnalysisNews)}

Calls == ScoreRiskCalls \cup DecideCalls \cup SimulateCalls \cup DecisionRunCalls \cup AnalysisCalls

\* A new Orchestrator, and one call about to be made.
CallInit ==
    /\ G = EmptyGraph
    /\ graph_in_memory = FALSE
    /\ memory = EmptyMemory
    /\ pc = "idle"
    /\ ingest_result = Absent
    /\ result = NoResult
    /\ written = {}
    /\ prev_written = {}
    /\ repeat = FALSE
    /\ call \in Calls
    /\ ret = Absent
    /\ RUNNING = TRUE
    /\ at = "off"
    /\ cycle_count = 0

ApplyScoreRisk ==
    /\ call.fn = "score_risk"
    /\ ret = Absent
    /\ ret' = score_risk(call.news_item, call.node_data)
    /\ UNCHANGED <<MainVars, call, LoopVars>>

ApplyDecide ==
    /\ call.fn = "decide_for_scenario"
    /\ ret = Absent
    /\ ret' = decide_for_scenario(call.risk, call.sim)
    /\ UNCHANGED <<MainVars, call, LoopVars>>

ApplySimulate ==
    /\ call.fn = "simulate_single_risk"
    /\ ret = Absent
    /\ ret' = simulate_single_risk(call.G, call.risk)
    /\ UNCHANGED <<MainVars, call, LoopVars>>

ApplyDecisionRun ==
    /\ call.fn = "DecisionAgent.run"
    /\ ret = Absent
    /\ ret' = DecisionRun(call.risks, call.simulation_results)
    /\ UNCHANGED <<MainVars, call, LoopVars>>

\* Steps 3 to 5 of run_single_cycle on the graph and the signals of the call.
ApplyAnalysis ==
    /\ call.fn = "analysis"
    /\ ret = Absent
    /\ \E risk_run \in {RiskAgentRun(call.news_items, call.G, TRUE)} :
          IF risk_run.raised THEN ret' = risk_run
          ELSE \E sim_run \in {SimulationAgentRun(call.G, TRUE, risk_run.value)} :
                  IF sim_run.raised THEN ret' = sim_run
                  ELSE \E decision_run \in {DecisionRun(risk_run.value, sim_run.value)} :
                          ret' = [raised |-> decision_run.raised,
                                  risk_result |-> risk_run.value,
                                  sim_result |-> sim_run.value,
                                  decision_result |-> decision_run.value]
    /\ UNCHANGED <<MainVars, call, LoopVars>>

CallNext == ApplyScoreRisk \/ ApplyDecide \/ ApplySimulate \/ ApplyDecisionRun \/ ApplyAnalysis

CallSpec == CallInit /\ [][CallNext]_vars

(***************************************************************************)
(* main(): the monitoring loop around run_single_cycle, and the handler of *)
(* SIGINT and SIGTERM.  The interpreter runs the handler between two       *)
(* bytecodes of the main thread, so between any two steps below.           *)
(***************************************************************************)
CycleVars == <<G, graph_in_memory, memory, pc, ingest_result, result, written, prev_written, repeat>>

\* What ingestion hands to the cycles of the loop: no or one supplier, no or one signal
\* (the loop reads nothing of a cycle but its status).
MainRosters == {<<>>} \cup {<<sup>> : sup \in SupplierCatalogue}

MainNewsLists == {<<>>} \cup {<<item>> : item \in NewsCatalogue}

\* main() has built its Orchestrator and is about to test the loop condition.
MainInit ==
    /\ G = EmptyGraph
    /\ graph_in_memory = FALSE
    /\ memory = EmptyMemory
    /\ pc = "idle"
    /\ ingest_result = Absent
    /\ result = NoResult
    /\ written = {}
    /\ prev_written = {}
    /\ repeat = FALSE
    /\ call = Absent
    /\ ret = Absent
    /\ RUNNING = TRUE
    /\ at = "test"
    /\ cycle_count = 0

\* signal_handler: RUNNING = False, whatever main() is doing; a signal after main()
\* has returned finds nothing to stop.
signal_handler ==
    /\ at # "stopped"
    /\ RUNNING' = FALSE
    /\ UNCHANGED <<CycleVars, call, ret, at, cycle_count>>

\* The slip of a loop that never reads the flag (`while True`).
LoopTestIgnoresFlag ==
    /\ at = "test"
    /\ cycle_count < MaxCycles
    /\ at' = "call"
    /\ cycle_count' = cycle_count + 1
    /\ UNCHANGED <<CycleVars, call, ret, RUNNING>>

\* `while RUNNING:` and, when it holds, `cycle_count += 1`; otherwise main() logs that
\* it stopped and returns.
LoopTest ==
    /\ at = "test"
    /\ IF RUNNING
       THEN /\ cycle_count < MaxCycles
            /\ at' = "call"
            /\ cycle_count' = cycle_count + 1
       ELSE /\ at' = "stopped"
            /\ UNCHANGED cycle_count
    /\ UNCHANGED <<CycleVars, call, ret, RUNNING>>

\* `result = orchestrator.run_single_cycle(config)`: the call, up to the end of step 1.
CallCycle ==
    /\ at = "call"
    /\ StartOfCycle(MainRosters, MainNewsLists)
    /\ at' = "cycle"
    /\ UNCHANGED <<call, ret, RUNNING, cycle_count>>

\* run_single_cycle has returned its dict; main() logs the summary or the failure.
CycleReturns ==
    /\ at = "cycle"
    /\ pc = "idle"
    /\ at' = "after"
    /\ UNCHANGED <<CycleVars, call, ret, RUNNING, cycle_count>>

\* `if RUNNING:` after the cycle: sleep, or go straight back to the loop test.
AfterCycle ==
    /\ at = "after"
    /\ at' = IF RUNNING THEN "sleep" ELSE "test"
    /\ UNCHANGED <<CycleVars, call, ret, RUNNING, cycle_count>>

\* time.sleep(sleep_minutes * 60) returns: a signal whose handler returns without
\* raising does not cut the sleep short.
SleepEnds ==
    /\ at = "sleep"
    /\ at' = "test"
    /\ UNCHANGED <<CycleVars, call, ret, RUNNING, cycle_count>>

\* The steps of the main thread.
MainProgress ==
    \/ LoopTest
    \/ CallCycle
    \/ BuildGraph
    \/ DetectRisks
    \/ Simulate
    \/ Decide
    \/ CycleReturns
    \/ AfterCycle
    \/ SleepEnds

MainNext == MainProgress \/ signal_handler

\* The main thread keeps running: a cycle's steps return and the sleep ends. Signals
\* come or do not.
MainSpec == MainInit /\ [][MainNext]_vars /\ WF_vars(MainProgress)

(***************************************************************************)
(* Properties                                                              *)
(***************************************************************************)
\* run_single_cycle has returned to its caller.
CycleReturned == pc = "idle" /\ result # NoResult

\* The roster and the news items of the current (or the last) cycle.
CurrentRoster == memory["ingestion_result"].suppliers

SkeletonNodes == {"F001", "W001", "C001"}

SkeletonEdges == {<<"F001", "W001">>, <<"W001", "C001">>}

Capacities(g) ==
    {<<g.nodes[i], g.attrs[i].capacity>> : i \in {k \in 1..Len(g.nodes) : "capacity" \in DOMAIN g.attrs[k]}}

Scenarios == memory["simulation_result"].scenarios

\* C1: the simulation step (any number of node-failure and capacity-reduction
\* simulations) leaves the canonical graph with the same nodes, the same edges and
\* the same capacity on every node.
C1_SimulationKeepsCanonicalGraph ==
    [][pc = "simulate" =>
          /\ NodeSet(G') = NodeSet(G)
          /\ G'.edges = G.edges
          /\ Capacities(G') = Capacities(G)]_vars

\* C1 witness: a simulation step has run a node failure and a capacity reduction, and
\* the failed node is still in the canonical graph.
C1_Witness ==
    /\ pc = "decide"
    /\ \E i, j \in 1..Len(Scenarios) :
          /\ Scenarios[i].disruption_type = "node_failure"
          /\ HasNode(G, Scenarios[i].node_id)
          /\ Scenarios[j].disruption_type = "capacity_reduction"
          /\ Scenarios[j].capacity_loss_pct = 40

RosterIds(roster) == {roster[i].supplier_id : i \in 1..Len(roster)}

RosterEdges(roster) == UNION {SupplierEdges(roster[i]) : i \in 1..Len(roster)}

\* C2 (as claimed): once the graph of a cycle is built, it holds exactly the roster's
\* source nodes and the three skeleton nodes, and exactly the edges derived from them.
C2_GraphRebuiltEveryCycle ==
    pc = "risk" =>
        /\ NodeSet(G) = RosterIds(CurrentRoster) \cup SkeletonNodes
        /\ G.edges = RosterEdges(CurrentRoster) \cup SkeletonEdges

\* The records RiskAgent.run would hold if a signal whose scoring raises were left
\* out and the others kept.
RECURSIVE IsolatedRisks(_, _)
IsolatedRisks(g, news_items) ==
    IF news_items = <<>> THEN <<>>
    ELSE Bind(find_affected_nodes(g, Head(news_items)), LAMBDA affected :
              (IF affected.raised THEN <<>> ELSE affected.value)
              \o IsolatedRisks(g, Tail(news_items)))

\* C3 (as claimed): a failure while scoring one signal or simulating one risk does not
\* end the cycle: the risk step and the simulation step always hand over to the next
\* step, and the risk step keeps the records of every signal that scored.
C3_FailuresAreIsolated ==
    [][/\ pc \in {"risk", "simulate"} => pc' \in {"simulate", "decide"} /\ result' = NoResult
       /\ pc = "risk" =>
             LET kept == IsolatedRisks(G, ingest_result.news_items)
             IN  memory'["risk_result"].risks_detected = StableSortDesc(kept, RiskScores(kept))]_vars

\* C4 (as claimed): run_single_cycle never lets an exception through, and a caller
\* sees no failure result: every cycle returns the success summary, a failure inside
\* showing only as the empty sentinel decision result.
C4_OnlySentinelFailure ==
    CycleReturned =>
        /\ result.status = "success"
        /\ memory["decision_result"].decision_count = 0
              => memory["decision_result"] = EmptyDecisionResult

\* C5 (as claimed): a cycle run with an empty roster completes, finds no affected node
\* for any signal, and ends with the empty sentinel decision result.
C5_EmptyRosterCycleCompletes ==
    (CycleReturned /\ CurrentRoster = <<>>) =>
        /\ result.status = "success"
        /\ memory["risk_result"].total_risks_found = 0
        /\ memory["simulation_result"].scenarios = <<>>
        /\ memory["decision_result"] = EmptyDecisionResult

\* C6 (as claimed): building the topology from an empty roster yields exactly the
\* three skeleton nodes, the two skeleton edges and no source node.
C6_EmptyRosterSkeletonOnly ==
    [][(pc = "graph" /\ ingest_result.suppliers = <<>>) =>
          /\ Len(G'.nodes) = 3
          /\ NodeSet(G') = SkeletonNodes
          /\ G'.edges = SkeletonEdges
          /\ \A i \in 1..Len(G'.nodes) : G'.attrs[i].type # "supplier"]_vars

\* C7 (as claimed): for a non-empty roster the graph built has as many nodes as the
\* roster has records plus 3, and is acyclic.
C7_NodeCountAndAcyclic ==
    [][(pc = "graph" /\ ingest_result.suppliers # <<>>) =>
          /\ Len(G'.nodes) = Len(ingest_result.suppliers) + 3
          /\ is_directed_acyclic_graph(G')]_vars

\* Every order in which the given risks can be simulated.
Orders(risks) ==
    LET n == Len(risks)
    IN  {[i \in 1..n |-> risks[p[i]]] :
            p \in {q \in [1..n -> 1..n] : \A i, j \in 1..n : q[i] = q[j] => i = j}}

\* The scenarios and the decision result of the cycle when the selected risks are
\* simulated in the given order.
OutcomeInOrder(order) ==
    Bind(SimulateAll(G, order, <<>>), LAMBDA all :
        IF all.raised THEN [raised |-> TRUE]
        ELSE [raised |-> FALSE, order |-> order, scenarios |-> all.value,
              decision |-> DecisionAgentRun(memory["risk_result"].risks_detected, all.value)])

\* Each risk has the same scenario in both outcomes.
SameScenarios(a, b) ==
    /\ a.raised = b.raised
    /\ ~a.raised =>
          \A i \in 1..Len(a.order), j \in 1..Len(b.order) :
              a.order[i] = b.order[j] => a.scenarios[i] = b.scenarios[j]

Occurrences(seq, x) == Cardinality({i \in 1..Len(seq) : seq[i] = x})

\* The two decision results agree except for the order of equally confident decisions.
SameUpToTies(x, y) ==
    LET dx == x.recommended_actions
        dy == y.recommended_actions
    IN  /\ Len(dx) = Len(dy)
        /\ \A d \in Range(dx) \cup Range(dy) : Occurrences(dx, d) = Occurrences(dy, d)
        /\ DecisionConfidences(dx) = DecisionConfidences(dy)
        /\ \A i \in 1..Len(dx) :
              Occurrences(DecisionConfidences(dx), dx[i].confidence) = 1 => dx[i] = dy[i]
        /\ x.overall_confidence = y.overall_confidence
        /\ x.decision_count = y.decision_count
        /\ (Len(dx) >= 2 => dx[1].confidence > dx[2].confidence)
              => x.top_recommendation = y.top_recommendation

\* The simulation step is about to run on a non-empty risk list.
ReadyToSimulate == pc = "simulate" /\ Len(memory["risk_result"].risks_detected) > 0

C9_SecondCycleSameResults ==
    [][(pc # "idle" /\ repeat') =>
          /\ \A k \in ResultKeys : memory'[k] = memory[k]
          /\ pc' = "idle" => written' = prev_written']_vars

\* C9 witness: the second of two cycles on the same inputs has returned, with risks,
\* scenarios and decisions.
C9_Witness ==
    /\ CycleReturned
    /\ repeat
    /\ result.status = "success"
    /\ Len(Scenarios) >= 2
    /\ memory["decision_result"].decision_count >= 2

\* C10 (as claimed): while a cycle runs, and in what a failed cycle returns as its
\* partial results, the store holds only results the cycle itself has written.
C10_NoResultOutlivesCycle ==
    /\ pc # "idle" => \A k \in ResultKeys : memory[k] # Absent => k \in written
    /\ (CycleReturned /\ result.status = "error") =>
          \A k \in ResultKeys : result.partial_results[k] # Absent => k \in written

\* A call of the named method has returned.
Called(fn) == call # Absent /\ call.fn = fn /\ ret # Absent

\* C11: the action list decide_for_scenario returns is non-empty, names no action
\* twice, has non-increasing urgency, and primary_action is its first element, an
\* action of the greatest urgency in the list.
C11_ActionListWellFormed ==
    Called("decide_for_scenario") =>
        LET acts == ret.recommended_actions
        IN  /\ Len(acts) >= 1
            /\ \A i, j \in 1..Len(acts) : acts[i].action = acts[j].action => i = j
            /\ \A i \in 1..(Len(acts) - 1) : acts[i].urgency >= acts[i + 1].urgency
            /\ ret.primary_action = acts[1].action
            /\ \A i \in 1..Len(acts) : acts[1].urgency >= acts[i].urgency

\* C11 witness: a medium-tier decision for a critical material, where the upgrade of
\* increase_monitoring meets the notify_procurement already in the list.
C11_Witness ==
    /\ Called("decide_for_scenario")
    /\ call.risk.material = "Steel"
    /\ call.risk.risk_score = 40
    /\ call.sim.estimated_delay_days = 0
    /\ call.sim.service_level_impact_pct = 0
    /\ ret.primary_action = "notify_procurement"
    /\ Len(ret.recommended_actions) = 1

\* C12 (as claimed): for every supplier node and every signal with a relevance score
\* in [0,1], score_risk returns a value in [0,1] (the same value for the same
\* arguments, the call's result being a function of them).
C12_ScoreInUnitRange ==
    Called("score_risk") =>
        /\ ~ret.raised
        /\ ret.value \in 0..100

\* What is left of C12 for a signal whose title and summary are both text.
ScoreInUnitRangeOnText ==
    (Called("score_risk") /\ ~call.news_item.summary.is_none) =>
        /\ ~ret.raised
        /\ ret.value \in 0..100

\* The score C19 states, in hundredths: the material bonus counted once.
ClaimedScore(news_item, node_data) ==
    LET words == news_item.title.words \cup news_item.summary.words
        sensitive == extract_risk_types(words) \cap MaterialSensitivity(node_data.material)
        base == CountryRiskBase(node_data.country)
                + (IF sensitive # {} THEN 250 ELSE 0)
                + news_item.relevance_score * 3
                + (IF node_data.country \in EntityCountries(words) THEN 150 ELSE 0)
                + (IF node_data.material \in EntityMaterials(words) THEN 200 ELSE 0)
    IN  Min(Round2(base), 100)

\* C19 (as claimed): the score is min(1.0, round2(country baseline (0.3 when unknown)
\* + 0.25 if at least one matched category is in the material's sensitivity set
\* + relevance_score * 0.3 + 0.15 for an entity-matched country + 0.20 for an
\* entity-matched material)): the material bonus is added at most once.
C19_MaterialBonusOnce ==
    (Called("score_risk") /\ ~ret.raised) =>
        ret.value = ClaimedScore(call.news_item, call.node_data)

\* simulate_single_risk has returned a scenario.
Simulated == Called("simulate_single_risk") /\ ~ret.raised

\* The capacity attribute of node n of g.
CapacityOf(g, n) == NodeAttrs(g, n).capacity

\* C13: every scenario simulate_single_risk produces has a service level impact
\* within [0,100] percent and an estimated delay of at least 0 days.
C13_ImpactAndDelayInRange ==
    Simulated =>
        /\ ret.value.service_level_impact_pct \in 0..1000
        /\ ret.value.estimated_delay_days >= 0

\* C13 witness: a node failure upstream of three nodes, impact 75.0 percent.
C13_Witness ==
    /\ Simulated
    /\ ret.value.disruption_type = "node_failure"
    /\ ret.value.service_level_impact_pct = 750

\* The capacity loss C14 states for a score, in percent.
ClaimedLoss(score) == IF score >= 80 THEN 80 ELSE IF score >= 50 THEN 40 ELSE 20

\* C14: for a risk on a node of the graph, a score of 0.9 or more gives a node_failure
\* and the node is gone from the working copy; a lower score gives a
\* capacity_reduction, the node stays in the working copy and its capacity there is
\* the original one less the tier's fraction (0.8 from 0.8, 0.4 from 0.5, else 0.2),
\* never below 0.
C14_DisruptionByScore ==
    Simulated =>
        LET n == call.risk.node_id
            score == call.risk.risk_score
        IN  /\ score >= 90 =>
                  /\ ret.value.disruption_type = "node_failure"
                  /\ ~HasNode(ret.sim_G, n)
            /\ score < 90 =>
                  /\ ret.value.disruption_type = "capacity_reduction"
                  /\ HasNode(ret.sim_G, n)
                  /\ ret.value.capacity_loss_pct = ClaimedLoss(score)
                  /\ "capacity" \in DOMAIN NodeAttrs(call.G, n) =>
                        /\ 100 * CapacityOf(ret.sim_G, n)
                              = CapacityOf(call.G, n) * (100 - ClaimedLoss(score))
                        /\ CapacityOf(ret.sim_G, n) >= 0

\* C14 witness: a score of exactly 0.5 has taken 40 percent off a capacity of 100.
C14_Witness ==
    /\ Simulated
    /\ call.risk.risk_score = 50
    /\ ret.value.disruption_type = "capacity_reduction"
    /\ CapacityOf(call.G, call.risk.node_id) = 100
    /\ CapacityOf(ret.sim_G, call.risk.node_id) = 60

\* C17 (as claimed): for either disruption type, affected_nodes_count is the number of
\* descendants of the disrupted node in the undisrupted graph plus 1.
C17_AffectedCountsDescendants ==
    Simulated =>
        ret.value.affected_nodes_count
            = Cardinality(descendants(call.G, call.risk.node_id)) + 1

\* The delay multiplier C18 states for a score, in tenths.
ClaimedMultiplier(score) == IF score >= 80 THEN 15 ELSE IF score >= 50 THEN 10 ELSE 7

\* The greatest hop distance in g from n to itself or a node downstream of it.
GreatestHops(g, n) ==
    LET hops == {shortest_path_length(g, n, t) : t \in descendants(g, n) \cup {n}}
    IN  CHOOSE h \in hops : \A k \in hops : k <= h

\* C18 (as claimed): for either disruption type, estimated_delay_days is 3 days times
\* the tier's multiplier (1.5 from 0.8, 1.0 from 0.5, else 0.7) times the greatest hop
\* distance, in the undisrupted graph, from the disrupted node to a node of its
\* affected set (itself and the nodes downstream of it).
C18_DelayFromGreatestHops ==
    Simulated =>
        ret.value.estimated_delay_days
            = 3 * ClaimedMultiplier(call.risk.risk_score)
                * GreatestHops(call.G, call.risk.node_id)

\* The input is missing (None), or its list is missing or empty.
NothingIn(input, key) == input = Absent \/ DictGet(input, key, <<>>) = <<>>

\* C15: DecisionAgent.run returns the empty sentinel (no decision, decision_count 0,
\* overall_confidence 0.0, top_recommendation do_nothing) and raises nothing whenever
\* the risk input or the scenario input is None or has an empty list.
C15_SentinelOnMissingInput ==
    (/\ Called("DecisionAgent.run")
     /\ NothingIn(call.risks, "risks_detected") \/ NothingIn(call.simulation_results, "scenarios")) =>
        /\ ~ret.raised
        /\ ret.value.recommended_actions = <<>>
        /\ ret.value.decision_count = 0
        /\ ret.value.overall_confidence = 0
        /\ ret.value.top_recommendation = "do_nothing"

\* C15 witness: run was called with None for the risks and a scenario in the
\* simulation results, and returned.
C15_Witness ==
    /\ Called("DecisionAgent.run")
    /\ call.risks = Absent
    /\ call.simulation_results # Absent
    /\ DictGet(call.simulation_results, "scenarios", <<>>) # <<>>
    /\ ~ret.raised
    /\ ret.value.top_recommendation = "do_nothing"

\* Scenario sim is the simulation of risk record risk.
ScenarioOf(sim, risk) ==
    /\ sim.node_id = risk.node_id
    /\ sim.severity_used = risk.risk_score
    /\ sim.news_title = risk.news_title

\* C16: at most 5 risks of a cycle are simulated and they are the most severe ones (no
\* unsimulated risk has a strictly greater score than a simulated one), so the cycle
\* has at most 5 scenarios and at most 5 decisions.
C16_TopFiveSimulated ==
    (Called("analysis") /\ ~ret.raised) =>
        LET risks == ret.risk_result.risks_detected
            scenarios == ret.sim_result.scenarios
            simulated == {i \in 1..Len(risks) :
                             \E k \in 1..Len(scenarios) : ScenarioOf(scenarios[k], risks[i])}
        IN  /\ Cardinality(simulated) <= 5
            /\ Len(scenarios) <= 5
            /\ \A k \in 1..Len(scenarios) : \E i \in simulated : ScenarioOf(scenarios[k], risks[i])
            /\ \A i \in (1..Len(risks)) \ simulated, j \in simulated :
                  risks[i].risk_score <= risks[j].risk_score
            /\ ret.decision_result.decision_count <= 5
            /\ Len(ret.decision_result.recommended_actions) <= 5

\* C16 witness: a cycle found 8 risks, simulated 5 and left a risk of lower score out.
C16_Witness ==
    /\ Called("analysis")
    /\ ~ret.raised
    /\ Len(ret.risk_result.risks_detected) = 8
    /\ Len(ret.sim_result.scenarios) = 5
    /\ ret.decision_result.decision_count = 5

\* The supplier nodes of g whose country, material or name the signal mentions.
MatchedSuppliers(g, news_item) ==
    {g.nodes[i] : i \in {k \in 1..Len(g.nodes) :
        /\ g.attrs[k].type = "supplier"
        /\ NodeMatches(g.attrs[k], news_item.title.words \cup news_item.summary.words)}}

\* C20: every risk record the risk step produces names a supplier node that is in the
\* canonical graph of the cycle (never a skeleton node, never an absent id), and a
\* signal that matches no supplier node produces no record and no error.
C20_RisksNameLiveSuppliers ==
    [][pc = "risk" =>
          LET news == ingest_result.news_items
              unmatched == {k \in 1..Len(news) : MatchedSuppliers(G, news[k]) = {}}
          IN  /\ pc' = "simulate" =>
                    LET risks == memory'["risk_result"].risks_detected
                    IN  /\ \A i \in 1..Len(risks) :
                              /\ HasNode(G', risks[i].node_id)
                              /\ NodeAttrs(G', risks[i].node_id).type = "supplier"
                              /\ risks[i].node_id \notin SkeletonNodes
                        /\ \A k \in unmatched, i \in 1..Len(risks) :
                              risks[i].news_title # news[k].title
              /\ unmatched = 1..Len(news) =>
                    /\ pc' = "simulate"
                    /\ memory'["risk_result"].risks_detected = <<>>]_vars

\* C20 witness: the risk step has produced records for one signal and none for
\* another, which matched no supplier node of the graph.
C20_Witness ==
    /\ pc = "simulate"
    /\ Len(memory["risk_result"].risks_detected) >= 1
    /\ \E k \in 1..Len(ingest_result.news_items) :
          MatchedSuppliers(G, ingest_result.news_items[k]) = {}

\* The decision a call of decide_for_scenario returned, and the figures it was given.
ActionSet(decision) ==
    {decision.recommended_actions[i].action : i \in 1..Len(decision.recommended_actions)}

Severity == call.risk.risk_score

DelayTenths == call.sim.estimated_delay_days

ImpactTenths == call.sim.service_level_impact_pct

\* The tiers as the cascade is stated: the highest tier whose condition holds.
StatedCritical == Severity >= 85 \/ DelayTenths >= 140 \/ ImpactTenths >= 600

StatedHigh == ~StatedCritical /\ (Severity >= 65 \/ DelayTenths >= 70 \/ ImpactTenths >= 400)

StatedMedium == ~StatedCritical /\ ~StatedHigh /\ (Severity >= 40 \/ ImpactTenths >= 200)

StatedLow == ~StatedCritical /\ ~StatedHigh /\ ~StatedMedium

StatedDowngrade == DelayTenths < 30 /\ ImpactTenths < 200 /\ Severity < 40

C23_DoNothingOnlyWhenMinimal ==
    Called("decide_for_scenario") =>
        /\ StatedDowngrade <=> ActionSet(ret) = {"do_nothing"}
        /\ ~StatedDowngrade => "do_nothing" \notin ActionSet(ret)
        /\ (StatedCritical \/ StatedHigh \/ StatedMedium) => "do_nothing" \notin ActionSet(ret)

\* C23 witness: a low-tier decision just outside the downgrade (delay 3.0 days), and no
\* do_nothing in it.
C23_Witness ==
    /\ Called("decide_for_scenario")
    /\ StatedLow
    /\ DelayTenths = 30 /\ Severity = 39 /\ ImpactTenths = 199
    /\ call.risk.material = "Paper pulp"
    /\ ActionSet(ret) = {"increase_monitoring"}

\* C24: for a material of criticality at least 4 increase_monitoring is never in the
\* final set, and a medium or low decision that is not downgraded has exactly
\* {notify_procurement}; for a lesser material the medium set is {notify_procurement,
\* increase_monitoring} and the low set {increase_monitoring}.
C24_MonitoringUpgraded ==
    Called("decide_for_scenario") =>
        IF MaterialCriticality(call.risk.material) >= 4
        THEN /\ "increase_monitoring" \notin ActionSet(ret)
             /\ ((StatedMedium \/ StatedLow) /\ ~StatedDowngrade) =>
                    ActionSet(ret) = {"notify_procurement"}
        ELSE /\ StatedMedium => ActionSet(ret) = {"notify_procurement", "increase_monitoring"}
             /\ (StatedLow /\ ~StatedDowngrade) => ActionSet(ret) = {"increase_monitoring"}

\* C24 witness: a low-tier decision for Semiconductors that is not downgraded.
C24_Witness ==
    /\ Called("decide_for_scenario")
    /\ StatedLow /\ ~StatedDowngrade
    /\ call.risk.material = "Semiconductors"
    /\ ActionSet(ret) = {"notify_procurement"}

\* The stated sum of the confidence before the cap, in units of 1/21000.
StatedConfidenceSum ==
    Min(Severity, 100) * 210
    + Min(DelayTenths * 30, 4200)
    + Min(ImpactTenths * 7, 4200)
    + MaterialCriticality(call.risk.material) * 840
    + CountryGeopoliticalRisk(call.risk.country) * 840

\* C25: the confidence of a decision is the stated sum capped at 1, rounded to the
\* nearest hundredth; it lies in [0, 1]; and every recommendation of the decision
\* carries that same value.
C25_ConfidenceFormula ==
    Called("decide_for_scenario") =>
        /\ 2 * (210 * ret.confidence - Min(StatedConfidenceSum, 21000)) \in -210..210
        /\ ret.confidence \in 0..100
        /\ \A i \in 1..Len(ret.recommended_actions) :
              ret.recommended_actions[i].estimated_confidence = ret.confidence

\* C25 witness: a decision with three recommendations whose sum is under the cap and
\* is no whole number of hundredths, for a supplier with both defaults.
C25_Witness ==
    /\ Called("decide_for_scenario")
    /\ call.risk.country = "Peru"
    /\ StatedConfidenceSum < 21000
    /\ StatedConfidenceSum % 210 > 105
    /\ Len(ret.recommended_actions) = 2
    /\ ret.confidence = (StatedConfidenceSum \div 210) + 1

\* DecisionAgent.run has returned a result, called directly or as step 5.
DecisionsReturned ==
    (Called("DecisionAgent.run") \/ Called("analysis")) /\ ~ret.raised

DecisionResult == IF call.fn = "analysis" THEN ret.decision_result ELSE ret.value

\* What C26 states beside the mean: the order, the count and the top recommendation.
RankedAndCounted(res) ==
    LET decisions == res.recommended_actions
    IN  /\ \A i \in 1..(Len(decisions) - 1) : decisions[i].confidence >= decisions[i + 1].confidence
        /\ res.decision_count = Len(decisions)
        /\ res.top_recommendation =
              (IF Len(decisions) > 0 THEN decisions[1].primary_action ELSE "do_nothing")
        /\ Len(decisions) = 0 => res.overall_confidence = 0

\* The sum of the confidences of the first min(3, n) decisions.
TopThreeSum(decisions) ==
    SeqSum([i \in 1..Min(3, Len(decisions)) |-> decisions[i].confidence])

\* C26 (as claimed): the decisions are in non-increasing order of confidence,
\* overall_confidence is the mean of the first min(3, n) confidences capped at 1 (0
\* without decisions), decision_count is their number and top_recommendation the
\* first decision's primary_action (do_nothing without decisions).
C26_OverallIsMeanOfTopThree ==
    DecisionsReturned =>
        LET res == DecisionResult
            n == Min(3, Len(res.recommended_actions))
        IN  /\ RankedAndCounted(res)
            /\ n > 0 => res.overall_confidence * n = Min(TopThreeSum(res.recommended_actions), 100 * n)

\* C26 (amended): the same, with overall_confidence the capped mean rounded to the
\* nearest hundredth.
C26_OverallIsRoundedMean ==
    DecisionsReturned =>
        LET res == DecisionResult
            n == Min(3, Len(res.recommended_actions))
        IN  /\ RankedAndCounted(res)
            /\ n > 0 =>
                  2 * (res.overall_confidence * n
                       - Min(TopThreeSum(res.recommended_actions), 100 * n)) \in (0 - n)..n

\* C26 witness: four decisions, the fourth less confident than the third, and a mean
\* of the first three that is no whole number of hundredths.
C26_Witness ==
    /\ DecisionsReturned
    /\ Len(DecisionResult.recommended_actions) = 4
    /\ DecisionResult.recommended_actions[4].confidence < DecisionResult.recommended_actions[3].confidence
    /\ DecisionResult.recommended_actions[3].confidence < DecisionResult.recommended_actions[1].confidence
    /\ TopThreeSum(DecisionResult.recommended_actions) % 3 # 0
    /\ DecisionResult.top_recommendation = DecisionResult.recommended_actions[1].primary_action

\* The two lists DecisionAgent.run was given.
RunRisks ==
    IF call.fn = "analysis" THEN ret.risk_result.risks_detected
    ELSE DictGet(NoneGuard(call.risks), "risks_detected", <<>>)

RunScenarios ==
    IF call.fn = "analysis" THEN ret.sim_result.scenarios
    ELSE DictGet(NoneGuard(call.simulation_results), "scenarios", <<>>)

UnmatchedScenarioSkipped ==
    (Called("DecisionAgent.run") \/ (Called("analysis") /\ "decision_result" \in DOMAIN ret)) =>
        /\ ~ret.raised
        /\ LET named == {RunRisks[i].node_id : i \in 1..Len(RunRisks)}
               matched == {k \in 1..Len(RunScenarios) : RunScenarios[k].node_id \in named}
           IN  RunRisks # <<>> => Len(DecisionResult.recommended_actions) = Cardinality(matched)

\* The kind of a node, and the kinds at the two ends of every edge of a graph.
NodeType(g, n) == NodeAttrs(g, n).type

EdgeKinds(g) == {<<NodeType(g, e[1]), NodeType(g, e[2])>> : e \in g.edges}

NodesOfType(g, type) == {n \in NodeSet(g) : NodeType(g, n) = type}

OneOfEachSkeletonNode(g) ==
    /\ Cardinality(NodesOfType(g, "factory")) = 1
    /\ Cardinality(NodesOfType(g, "warehouse")) = 1
    /\ Cardinality(NodesOfType(g, "customer")) = 1

ProducedScenarios ==
    IF Simulated THEN {ret.value}
    ELSE IF Called("analysis") /\ "sim_result" \in DOMAIN ret THEN Range(ret.sim_result.scenarios)
    ELSE {}

\* C29: a scenario is a capacity_reduction exactly when its score is under 0.9, and
\* every capacity_reduction scenario has service_level_impact_pct 0.0 and counts as
\* affected the node and all its descendants in the graph, whatever the tier and the
\* topology; only a node_failure has a non-zero impact.
C29_CapacityReductionImpactZero ==
    \A sc \in ProducedScenarios :
        /\ sc.disruption_type = "capacity_reduction" <=> sc.severity_used < 90
        /\ sc.disruption_type = "capacity_reduction" =>
              /\ sc.service_level_impact_pct = 0
              /\ sc.affected_nodes_count = Cardinality(descendants(call.G, sc.node_id)) + 1
        /\ sc.service_level_impact_pct # 0 => sc.disruption_type = "node_failure"

\* C29 witness: a capacity reduction of the severe tier (score 0.89, 80 percent of the
\* capacity lost) on a source with three nodes downstream, and no service impact.
C29_Witness ==
    /\ Simulated
    /\ ret.value.disruption_type = "capacity_reduction"
    /\ ret.value.severity_used = 89
    /\ ret.value.capacity_loss_pct = 80
    /\ ret.value.affected_nodes_count = 4
    /\ ret.value.service_level_impact_pct = 0

\* What C30 states of the time before a signal: a cycle that returned status error is
\* followed by the sleep and, signal or cycle bound apart, by the next cycle.
ErrorDoesNotStopLoop ==
    /\ [][(at = "after" /\ result.status = "error" /\ RUNNING) => at' \in {"after", "sleep"}]_vars
    /\ \A n \in 1..(MaxCycles - 1) :
          (at = "after" /\ result.status = "error" /\ cycle_count = n)
              ~> (~RUNNING \/ (at = "cycle" /\ cycle_count = n + 1))

\* Once the flag is cleared the cycle in progress still runs to its end, and main()
\* returns in the end.
CycleFinishedAndLoopLeft ==
    /\ [][(~RUNNING /\ at = "cycle") => at' \in {"cycle", "after"}]_vars
    /\ [][(~RUNNING /\ at = "cycle" /\ at' = "after") => result.status \in {"success", "error"}]_vars
    /\ ~RUNNING ~> at = "stopped"

\* C30 (as claimed): once a shutdown signal has been received, the cycle in progress
\* runs to completion, no further cycle is started and the loop terminates in the
\* end; before any signal a cycle that ends with status error does not stop the loop
\* and the next cycle is started.
C30_NoCycleStartsAfterSignal ==
    /\ [][~RUNNING => ~(at = "call" /\ at' = "cycle")]_vars
    /\ CycleFinishedAndLoopLeft
    /\ ErrorDoesNotStopLoop

\* C30 (amended): once a shutdown signal has been received the loop condition never
\* holds again, so no further iteration is begun; the iteration already begun runs
\* its cycle to completion, also when the signal came between the loop test and the
\* call of the cycle; the loop terminates in the end; and before any signal a cycle
\* that ends with status error does not stop the loop.
C30_NoIterationBeginsAfterSignal ==
    /\ [][~RUNNING => cycle_count' = cycle_count]_vars
    /\ [][(~RUNNING /\ at = "call") => at' \in {"call", "cycle"}]_vars
    /\ CycleFinishedAndLoopLeft
    /\ ErrorDoesNotStopLoop

\* C30 witness: main() has returned after a signal, its second cycle having run to a
\* successful end.
C30_Witness ==
    /\ at = "stopped"
    /\ ~RUNNING
    /\ cycle_count = 2
    /\ result.status = "success"

====
